---- MODULE Spec2Model ----
(***************************************************************************)
(* AppartTracker backend: the Step store and its routes (routes/steps.js,  *)
(* models/Step.js), property creation with its default steps               *)
(* (routes/properties.js), and the read-only dashboard / calendar          *)
(* computations (server.js, routes/calendar.js).                           *)
(*                                                                         *)
(* Spec        : the step lifecycle driven by the HTTP routes.              *)
(* SpecOrder   : the order / soft-delete requests on the step store.       *)
(* SpecViews   : the property list and the overview read from the store.   *)
(* SpecReports : the read-only computations, applied to bounded inputs.    *)
(* SpecEvents  : the event store and the requests that validate a payload. *)
(* SpecAccess  : ownership, sharing and soft deletion on a two-property     *)
(*               store.                                                    *)
(* SpecRace    : handlers of concurrent requests, interleaved at their     *)
(*               awaits.                                                   *)
(***************************************************************************)
EXTENDS Integers, Sequences, FiniteSets, TLC

VARIABLES properties, steps, events, documents, now, request, response

vars == <<properties, steps, events, documents, now, request, response>>

(***************************************************************************)
(* Bounds of the model.                                                    *)
(***************************************************************************)
MaxSteps == 2          \* Step documents ever created
MaxProps == 1          \* Property documents ever created
MaxTime == 2           \* the clock runs over 1..MaxTime
MaxChecklist == 1      \* items in a checklist
MaxCount == 3          \* each dashboard count ranges over 0..MaxCount
MaxStamp == 5          \* activity timestamps range over 1..MaxStamp

Users == {"u1", "u2", "u3"}

NoDate == 0 - 1        \* an unset Date field (undefined)
Absent == 0 - 2        \* a numeric field missing from a request body

Times == 1..MaxTime

Min(a, b) == IF a <= b THEN a ELSE b
Max(a, b) == IF a >= b THEN a ELSE b

\* Math.round(n / d * 100) for n >= 0, d > 0 (round half up)
RoundPct(n, d) == (200 * n + d) \div (2 * d)

(***************************************************************************)
(* models/Step.js                                                          *)
(***************************************************************************)
StepStatus == {"todo", "in_progress", "completed", "cancelled", "on_hold"}

\* a checklist is a sequence of the items' `completed` flags
RECURSIVE CountCompleted(_)
CountCompleted(cl) ==
    IF cl = <<>> THEN 0
    ELSE (IF Head(cl) THEN 1 ELSE 0) + CountCompleted(Tail(cl))

checklistCompletionMutantZero(step) ==
    IF Len(step.checklist) = 0 THEN 0
    ELSE RoundPct(CountCompleted(step.checklist), Len(step.checklist))

\* virtual checklistCompletion
checklistCompletion(step) ==
    IF Len(step.checklist) = 0 THEN 100
    ELSE RoundPct(CountCompleted(step.checklist), Len(step.checklist))

\* virtual isOverdue, read at clock value t
isOverdue(step, t) ==
    IF step.deadline = NoDate \/ step.status = "completed" THEN FALSE
    ELSE t > step.deadline

\* stepSchema.pre('save'): modStatus / modChecklist are isModified('status') /
\* isModified('checklist')
preSave(step, modStatus, modChecklist) ==
    IF modChecklist \/ modStatus
    THEN IF step.status = "completed"
         THEN [step EXCEPT !.completionPercentage = 100]
         ELSE IF step.status = "in_progress"
         THEN [step EXCEPT !.completionPercentage = Max(checklistCompletion(step), 10)]
         ELSE IF step.status = "todo"
         THEN [step EXCEPT !.completionPercentage = 0]
         ELSE step
    ELSE step

\* isModified('status') of a loaded document: it was assigned a different value
StatusModified(old, new) == old.status # new.status

\* the possible values of isModified('checklist') after `step.checklist = cl` on a
\* loaded document: a different content is a modification, an empty array over an
\* empty one is not, and an equal non-empty content is one or not (the assignment
\* builds new subdocuments with fresh completedAt / _id values)
ChecklistModified(old, cl) ==
    IF old.checklist # cl THEN {TRUE}
    ELSE IF cl = <<>> THEN {FALSE}
    ELSE BOOLEAN

\* document.save() of a loaded document `old` changed in memory to `new`;
\* modChecklist is isModified('checklist')
saveLoaded(old, new, modChecklist) ==
    preSave(new, StatusModified(old, new), modChecklist)

startMutantAlways(step, t) ==
    saveLoaded(step, [step EXCEPT !.status = "in_progress", !.actualStart = t], FALSE)

\* stepSchema.methods.start
start(step, t) ==
    IF step.status = "todo"
    THEN saveLoaded(step, [step EXCEPT !.status = "in_progress", !.actualStart = t], FALSE)
    ELSE saveLoaded(step, step, FALSE)

completeMutantNoStamp(step, t) ==
    saveLoaded(step, [step EXCEPT !.status = "completed",
                                  !.completionPercentage = 100], FALSE)

\* stepSchema.methods.complete
complete(step, t) ==
    saveLoaded(step, [step EXCEPT !.status = "completed",
                                  !.actualEnd = t,
                                  !.completionPercentage = 100], FALSE)

\* stepSchema.methods.updateCompletionPercentage: the assignment, then save() (the
\* hook sees no modified status or checklist)
updateCompletionPercentage(step) ==
    saveLoaded(step,
               [step EXCEPT !.completionPercentage =
                   IF step.status = "completed" THEN 100
                   ELSE IF step.status = "in_progress"
                   THEN Max(checklistCompletion(step), 10)
                   ELSE 0],
               FALSE)

\* schema defaults of a new Step
NewStep(p, order) ==
    [property |-> p, order |-> order, status |-> "todo",
     completionPercentage |-> 0, checklist |-> <<>>,
     deadline |-> NoDate, actualStart |-> NoDate, actualEnd |-> NoDate,
     isActive |-> TRUE]

(***************************************************************************)
(* Store helpers                                                           *)
(***************************************************************************)
StepIds == 1..Len(steps)
PropIds == 1..Len(properties)

IsOwner(u, p) == properties[p].owner = u
IsShared(u, p) == u \in properties[p].sharedWith

\* the response of the last request: the operation, the HTTP status, the id of the
\* target; for start() and the status route also the step's status before the
\* request, and for the status route the requested status
Reply(op, code, id, old, arg) ==
    [op |-> op, code |-> code, id |-> id, old |-> old, arg |-> arg]

(***************************************************************************)
(* routes/properties.js                                                    *)
(***************************************************************************)
\* the first entries of defaultSteps (11 in the source): name / category are
\* not modelled, the order is the position
DefaultStepCount == 1

\* createDefaultSteps: Step.insertMany runs no save middleware, so the
\* documents keep the status given here and the schema default percentage
createDefaultSteps(p) ==
    [i \in 1..DefaultStepCount |->
        [NewStep(p, i) EXCEPT !.status = IF i = 1 THEN "in_progress" ELSE "todo"]]

\* POST /api/properties
CreateProperty(u, shared) ==
    /\ Len(properties) < MaxProps
    /\ Len(steps) + DefaultStepCount <= MaxSteps
    /\ properties' = Append(properties, [owner |-> u, sharedWith |-> shared, isActive |-> TRUE])
    /\ steps' = steps \o createDefaultSteps(Len(properties) + 1)
    /\ response' = Reply("createProperty", 201, Len(properties) + 1, "none", "none")
    /\ UNCHANGED <<now, request, events, documents>>

(***************************************************************************)
(* routes/steps.js                                                         *)
(***************************************************************************)
Orders == 1..MaxSteps
CpInputs == {0, 50}
Deadlines == {1}
Checklists == UNION {[1..n -> BOOLEAN] : n \in 0..MaxChecklist}

\* request bodies of POST /api/steps and PUT /api/steps/:id: `order` is required by
\* stepValidation; status and completionPercentage are optional ("absent" / Absent);
\* `deadline` stands for an optional body field dates: {deadline: d}. Checklists
\* are written through the checklist routes.
StepBodies ==
    [order : Orders,
     status : StepStatus \cup {"absent"},
     completionPercentage : CpInputs \cup {Absent},
     deadline : Deadlines \cup {Absent}]

\* Object.assign(step, req.body) / new Step(req.body): assigning `dates` replaces the
\* whole nested object, so the fields the body does not give become unset
assignBody(step, b) ==
    [step EXCEPT
        !.order = b.order,
        !.status = IF b.status = "absent" THEN @ ELSE b.status,
        !.completionPercentage =
            IF b.completionPercentage = Absent THEN @ ELSE b.completionPercentage,
        !.deadline = IF b.deadline = Absent THEN @ ELSE b.deadline,
        !.actualStart = IF b.deadline = Absent THEN @ ELSE NoDate,
        !.actualEnd = IF b.deadline = Absent THEN @ ELSE NoDate]

\* Step.findOne({property, order, isActive: true})
OrderTaken(p, order) ==
    \E i \in StepIds :
        steps[i].property = p /\ steps[i].order = order /\ steps[i].isActive

\* GET /api/steps/property/:propertyId : stats.overdue, the clock read at t
StatsOverdue(p, t) ==
    Cardinality({i \in StepIds :
        steps[i].property = p /\ steps[i].isActive /\ isOverdue(steps[i], t)})

GetPropertySteps(u, p) ==
    /\ IF p \in PropIds /\ (IsOwner(u, p) \/ IsShared(u, p))
       THEN response' = [op |-> "stepStats", code |-> 200, id |-> p, old |-> "none",
                         arg |-> "none", overdue |-> StatsOverdue(p, now)]
       ELSE response' = Reply("stepStats", 404, 0, "none", "none")
    /\ UNCHANGED <<properties, steps, now, request, events, documents>>

\* POST /api/steps : a new document, every path the body gives is modified
CreateStep(u, p, b) ==
    /\ Len(steps) < MaxSteps
    /\ IF ~(p \in PropIds /\ IsOwner(u, p))
       THEN /\ response' = Reply("createStep", 404, 0, "none", "none")
            /\ UNCHANGED steps
       ELSE IF OrderTaken(p, b.order)
       THEN /\ response' = Reply("createStep", 400, 0, "none", "none")
            /\ UNCHANGED steps
       ELSE /\ steps' = Append(steps,
                  preSave(assignBody(NewStep(p, b.order), b),
                          b.status # "absent", FALSE))
            /\ response' = Reply("createStep", 201, Len(steps) + 1, "none", "none")
    /\ UNCHANGED <<properties, now, request, events, documents>>

\* PUT /api/steps/:id
UpdateStep(u, id, b) ==
    /\ IF id \notin StepIds
       THEN /\ response' = Reply("updateStep", 404, 0, "none", "none")
            /\ UNCHANGED steps
       ELSE IF ~IsOwner(u, steps[id].property)
       THEN /\ response' = Reply("updateStep", 403, 0, "none", "none")
            /\ UNCHANGED steps
       ELSE /\ steps' = [steps EXCEPT ![id] = saveLoaded(@, assignBody(@, b), FALSE)]
            /\ response' = Reply("updateStep", 200, id, "none", "none")
    /\ UNCHANGED <<properties, now, request, events, documents>>

\* PUT /api/steps/:id/status
UpdateStepStatus(u, id, status) ==
    /\ IF status \notin StepStatus
       THEN /\ response' = Reply("updateStatus", 400, 0, "none", "none")
            /\ UNCHANGED steps
       ELSE IF id \notin StepIds
       THEN /\ response' = Reply("updateStatus", 404, 0, "none", "none")
            /\ UNCHANGED steps
       ELSE IF ~(IsOwner(u, steps[id].property) \/ IsShared(u, steps[id].property))
       THEN /\ response' = Reply("updateStatus", 403, 0, "none", "none")
            /\ UNCHANGED steps
       ELSE /\ steps' = [steps EXCEPT ![id] =
                  IF status = "in_progress" /\ @.status = "todo" THEN start(@, now)
                  ELSE IF status = "completed" THEN complete(@, now)
                  ELSE saveLoaded(@, [@ EXCEPT !.status = status], FALSE)]
            /\ response' = Reply("updateStatus", 200, id, steps[id].status, status)
    /\ UNCHANGED <<properties, now, request, events, documents>>

\* a body whose `checklist` is not an array
NotAnArray == [i \in {0} |-> FALSE]

\* body('checklist').isArray()
isArray(cl) == cl # NotAnArray

\* PUT /api/steps/:id/checklist
UpdateChecklist(u, id, cl) ==
    /\ IF ~isArray(cl)
       THEN /\ response' = Reply("updateChecklist", 400, 0, "none", "none")
            /\ UNCHANGED steps
       ELSE IF id \notin StepIds
       THEN /\ response' = Reply("updateChecklist", 404, 0, "none", "none")
            /\ UNCHANGED steps
       ELSE IF ~(IsOwner(u, steps[id].property) \/ IsShared(u, steps[id].property))
       THEN /\ response' = Reply("updateChecklist", 403, 0, "none", "none")
            /\ UNCHANGED steps
       ELSE /\ \E mod \in ChecklistModified(steps[id], cl) :
                  steps' = [steps EXCEPT ![id] = saveLoaded(@, [@ EXCEPT !.checklist = cl], mod)]
            /\ response' = Reply("updateChecklist", 200, id, "none", "none")
    /\ UNCHANGED <<properties, now, request, events, documents>>

\* POST /api/steps/:id/checklist-item
AddChecklistItem(u, id) ==
    /\ id \in StepIds => Len(steps[id].checklist) < MaxChecklist
    /\ IF id \notin StepIds
       THEN /\ response' = Reply("addChecklistItem", 404, 0, "none", "none")
            /\ UNCHANGED steps
       ELSE IF ~IsOwner(u, steps[id].property)
       THEN /\ response' = Reply("addChecklistItem", 403, 0, "none", "none")
            /\ UNCHANGED steps
       ELSE /\ steps' = [steps EXCEPT ![id] =
                  saveLoaded(@, [@ EXCEPT !.checklist = Append(@, FALSE)], TRUE)]
            /\ response' = Reply("addChecklistItem", 200, id, "none", "none")
    /\ UNCHANGED <<properties, now, request, events, documents>>

\* DELETE /api/steps/:id
DeleteStep(u, id) ==
    /\ IF id \notin StepIds
       THEN /\ response' = Reply("deleteStep", 404, 0, "none", "none")
            /\ UNCHANGED steps
       ELSE IF ~IsOwner(u, steps[id].property)
       THEN /\ response' = Reply("deleteStep", 403, 0, "none", "none")
            /\ UNCHANGED steps
       ELSE /\ steps' = [steps EXCEPT ![id] = saveLoaded(@, [@ EXCEPT !.isActive = FALSE], FALSE)]
            /\ response' = Reply("deleteStep", 200, id, "none", "none")
    /\ UNCHANGED <<properties, now, request, events, documents>>

\* the `steps` array of a reorder body, one entry per distinct id
ReorderLists == UNION {[ids -> Orders] : ids \in SUBSET (1..MaxSteps)}

\* POST /api/steps/reorder : body('steps.*.order').isInt({min: 1}), then
\* Step.findByIdAndUpdate(id, {order}) for each entry, whatever property the step
\* belongs to; an id that resolves to nothing is skipped
ReorderSteps(u, p, list) ==
    /\ IF \E i \in DOMAIN list : list[i] < 1
       THEN /\ response' = Reply("reorder", 400, 0, "none", "none")
            /\ UNCHANGED steps
       ELSE IF ~(p \in PropIds /\ IsOwner(u, p))
       THEN /\ response' = Reply("reorder", 404, 0, "none", "none")
            /\ UNCHANGED steps
       ELSE /\ steps' = [i \in StepIds |->
                  IF i \in DOMAIN list THEN [steps[i] EXCEPT !.order = list[i]]
                  ELSE steps[i]]
            /\ response' = Reply("reorder", 200, p, "none", "none")
    /\ UNCHANGED <<properties, now, request, events, documents>>

\* step.start() called on a loaded step, whatever its status
StartStep(id) ==
    /\ id \in StepIds
    /\ steps' = [steps EXCEPT ![id] = start(@, now)]
    /\ response' = Reply("start", 200, id, steps[id].status, "none")
    /\ UNCHANGED <<properties, now, request, events, documents>>

\* the clock advances
Tick ==
    /\ now < MaxTime
    /\ now' = now + 1
    /\ UNCHANGED <<properties, steps, request, response, events, documents>>

NoRequest == [op |-> "none"]

Init ==
    /\ properties = <<>>
    /\ steps = <<>>
    /\ events = <<>>
    /\ documents = <<>>
    /\ now = 1
    /\ request = NoRequest
    /\ response = Reply("none", 0, 0, "none", "none")

(***************************************************************************)
(* Spec: the step lifecycle. One property owned by u1 and shared with u2   *)
(* (u3 is a stranger). The requests that change a step address the steps   *)
(* created through POST /api/steps; a generic update resends the step's    *)
(* order; the body of a request that is rejected before it is read is not  *)
(* varied.                                                                 *)
(***************************************************************************)
Owners == {"u1"}
Shares == {{"u2"}}
TargetIds == (DefaultStepCount + 1)..MaxSteps

AnyBody == CHOOSE b \in StepBodies : TRUE

UpdateBodies(u, id) ==
    IF id \in StepIds /\ IsOwner(u, steps[id].property)
    THEN {b \in StepBodies : b.order = steps[id].order}
    ELSE {AnyBody}

UpdateStepRequest ==
    \E u \in Users, id \in TargetIds : \E b \in UpdateBodies(u, id) : UpdateStep(u, id, b)

Next ==
    \/ \E u \in Owners, shared \in Shares : CreateProperty(u, shared)
    \/ \E u \in Users, p \in 1..MaxProps : GetPropertySteps(u, p)
    \/ \E u \in Users, p \in 1..MaxProps, b \in StepBodies : CreateStep(u, p, b)
    \/ UpdateStepRequest
    \/ \E u \in Users, id \in TargetIds, st \in StepStatus \cup {"bogus"} :
          UpdateStepStatus(u, id, st)
    \/ \E u \in Users, id \in TargetIds, cl \in Checklists : UpdateChecklist(u, id, cl)
    \/ \E u \in Users, id \in TargetIds : AddChecklistItem(u, id)
    \/ \E id \in TargetIds : StartStep(id)
    \/ Tick

Spec == Init /\ [][Next]_vars

(***************************************************************************)
(* SpecOrder: the order and the soft-delete flag of the steps. Any user    *)
(* creates properties, shared with any users; every step is addressed;     *)
(* the bodies carry the required fields only.                              *)
(***************************************************************************)
OrderBodies ==
    {b \in StepBodies : /\ b.status = "absent"
                        /\ b.completionPercentage = Absent
                        /\ b.deadline = Absent}

NextOrder ==
    \/ \E u \in Users, shared \in SUBSET Users : CreateProperty(u, shared)
    \/ \E u \in Users, p \in 1..MaxProps, b \in OrderBodies : CreateStep(u, p, b)
    \/ \E u \in Users, id \in 1..MaxSteps, b \in OrderBodies : UpdateStep(u, id, b)
    \/ \E u \in Users, id \in 1..MaxSteps : DeleteStep(u, id)
    \/ \E u \in Users, p \in 1..MaxProps, list \in ReorderLists : ReorderSteps(u, p, list)

SpecOrder == Init /\ [][NextOrder]_vars

(***************************************************************************)
(* routes/properties.js : getProgressPercentage (route helper and model    *)
(* method). A JavaScript value is a record: a number, undefined, or an     *)
(* object (functions included).                                            *)
(***************************************************************************)
Num(n) == [kind |-> "number", value |-> n]
Undefined == [kind |-> "undefined", value |-> 0]
Object == [kind |-> "object", value |-> 0]

PropertyStatus ==
    {"searching", "visiting", "offer_made", "compromis_signed", "loan_pending",
     "final_signature", "keys_received", "cancelled"}

\* the own properties of the object literal statusProgress
statusProgress ==
    [s \in PropertyStatus |->
        CASE s = "searching" -> 10
          [] s = "visiting" -> 20
          [] s = "offer_made" -> 40
          [] s = "compromis_signed" -> 60
          [] s = "loan_pending" -> 75
          [] s = "final_signature" -> 90
          [] s = "keys_received" -> 100
          [] s = "cancelled" -> 0]

\* property names an object literal inherits from Object.prototype
ObjectPrototypeKeys ==
    {"constructor", "toString", "toLocaleString", "valueOf", "hasOwnProperty",
     "isPrototypeOf", "propertyIsEnumerable", "__proto__"}

\* statusProgress[status] : own property, else inherited member, else undefined
statusProgressLookup(status) ==
    IF status \in DOMAIN statusProgress THEN Num(statusProgress[status])
    ELSE IF status \in ObjectPrototypeKeys THEN Object
    ELSE Undefined

\* v || 0
OrZero(v) == IF v = Undefined \/ v = Num(0) THEN Num(0) ELSE v

\* function getProgressPercentage(status)
getProgressPercentage(status) == OrZero(statusProgressLookup(status))

\* propertySchema.methods.getProgressPercentage, this.status = status
methodGetProgressPercentage(status) == OrZero(statusProgressLookup(status))

StatusInputs == PropertyStatus \cup {"", "sold", "constructor", "toString"}

\* a report request is drawn in InitReports and answered once
Pending(op) == request.op = op /\ response.op = "none"

ProgressRequest ==
    /\ Pending("progress")
    /\ response' = [op |-> "progress",
                    helper |-> getProgressPercentage(request.status),
                    method |-> methodGetProgressPercentage(request.status)]
    /\ UNCHANGED <<properties, steps, now, request, events, documents>>

(***************************************************************************)
(* JavaScript Number arithmetic of the percentages:                        *)
(* Math.round((completed / total) * 100) in IEEE 754 doubles. A positive   *)
(* double is a record [bits, scale]: `bits` is the binary mantissa, most   *)
(* significant bit first, and the value is bits / 2^scale.                 *)
(***************************************************************************)
\* significand bits of a double
Precision == 53

\* binary digits of a natural number, most significant first
RECURSIVE ToBits(_)
ToBits(n) == IF n = 0 THEN <<>> ELSE Append(ToBits(n \div 2), n % 2)

\* the number whose binary digits are bits[i..Len(bits)], on top of acc
RECURSIVE FromBitsAt(_, _, _)
FromBitsAt(bits, i, acc) ==
    IF i > Len(bits) THEN acc ELSE FromBitsAt(bits, i + 1, 2 * acc + bits[i])

FromBits(bits) == FromBitsAt(bits, 1, 0)

\* bits + 1: the trailing 1s become 0 and the 0 before them becomes 1
Increment(bits) ==
    LET zeros == {i \in 1..Len(bits) : bits[i] = 0}
    IN IF zeros = {} THEN <<1>> \o [i \in 1..Len(bits) |-> 0]
       ELSE LET z == CHOOSE i \in zeros : \A j \in zeros : j <= i
            IN [i \in 1..Len(bits) |-> IF i < z THEN bits[i] ELSE IF i = z THEN 1 ELSE 0]

\* round-to-nearest, ties-to-even, of an exact mantissa to Precision bits; `sticky`
\* says that the exact value has non-zero digits beyond `bits`
RoundToPrecision(bits, sticky) ==
    IF Len(bits) <= Precision THEN [bits |-> bits, dropped |-> 0]
    ELSE LET keep == SubSeq(bits, 1, Precision)
             guard == bits[Precision + 1]
             rest == sticky \/ \E i \in (Precision + 2)..Len(bits) : bits[i] = 1
             up == guard = 1 /\ (rest \/ keep[Precision] = 1)
         IN [bits |-> IF up THEN Increment(keep) ELSE keep,
             dropped |-> Len(bits) - Precision]

\* the digits of n in binary, on exactly `width` places
FixedBits(n, width) == [j \in 1..width |-> (n \div 2 ^ (width - j)) % 2]

\* binary places produced by one step of the long division
ChunkBits == 20

\* the first 4 * ChunkBits binary places of c / t (0 <= c < t), by long division in
\* steps of ChunkBits places, and the remainder left after them
Expansion(c, t) ==
    LET n1 == c * 2 ^ ChunkBits
        n2 == (n1 % t) * 2 ^ ChunkBits
        n3 == (n2 % t) * 2 ^ ChunkBits
        n4 == (n3 % t) * 2 ^ ChunkBits
    IN [bits |-> FixedBits(n1 \div t, ChunkBits) \o FixedBits(n2 \div t, ChunkBits)
                 \o FixedBits(n3 \div t, ChunkBits) \o FixedBits(n4 \div t, ChunkBits),
        rem |-> n4 % t]

\* c / t for c, t > 0: the binary digits of the integer part, then those of the
\* fraction; the Precision + 1 digits from the leading 1 on, rounded
fdiv(c, t) ==
    LET e == Expansion(c % t, t)
        int == ToBits(c \div t)
        full == int \o e.bits
        lead == CHOOSE i \in 1..Len(full) :
                    full[i] = 1 /\ \A j \in 1..(i - 1) : full[j] = 0
        last == lead + Precision
        sticky == e.rem # 0 \/ \E j \in (last + 1)..Len(full) : full[j] = 1
        r == RoundToPrecision(SubSeq(full, lead, last), sticky)
    IN [bits |-> r.bits, scale |-> last - Len(int) - r.dropped]

\* binary places of one limb of the multiplication
LimbBits == 18

\* bits * k for a natural k < 2^12 and at most 3 * LimbBits digits, limb by limb
\* from the least significant one
MulSmall(bits, k) ==
    LET padded == [j \in 1..(3 * LimbBits - Len(bits)) |-> 0] \o bits
        limb(n) == FromBits(SubSeq(padded, (n - 1) * LimbBits + 1, n * LimbBits))
        p3 == limb(3) * k
        p2 == limb(2) * k + p3 \div 2 ^ LimbBits
        p1 == limb(1) * k + p2 \div 2 ^ LimbBits
    IN ToBits(p1) \o FixedBits(p2 % 2 ^ LimbBits, LimbBits)
                  \o FixedBits(p3 % 2 ^ LimbBits, LimbBits)

\* x * k for a natural k < 2^12
fmul(x, k) ==
    LET r == RoundToPrecision(MulSmall(x.bits, k), FALSE)
    IN [bits |-> r.bits, scale |-> x.scale - r.dropped]

\* Math.round(x) for a positive double below 2^Precision: the integer part, plus
\* one when the first fractional digit is 1 (a tie rounds up)
MathRound(x) ==
    LET L == Len(x.bits)
    IN IF x.scale > L THEN 0
       ELSE IF x.scale <= 0 THEN FromBits(x.bits \o [i \in 1..(0 - x.scale) |-> 0])
       ELSE FromBits(SubSeq(x.bits, 1, L - x.scale)) + x.bits[L - x.scale + 1]

\* Math.round((completed / total) * 100) for completed >= 0, total > 0
mathRoundPercent(completed, total) ==
    IF completed = 0 THEN 0
    ELSE MathRound(fmul(fdiv(completed, total), 100))

(***************************************************************************)
(* server.js : GET /api/dashboard/overview, the alerts                     *)
(***************************************************************************)
Alert(type, priority, count) == [type |-> type, priority |-> priority, count |-> count]

alertsMutantZeroCount(overdueSteps, upcomingSteps, overdueEvents) ==
    LET a1 == IF overdueSteps > 0
              THEN <<Alert("warning", "high", overdueSteps)>> ELSE <<>>
        a2 == IF upcomingSteps >= 0
              THEN Append(a1, Alert("info", "medium", upcomingSteps)) ELSE a1
        a3 == IF overdueEvents > 0
              THEN Append(a2, Alert("error", "high", overdueEvents)) ELSE a2
    IN a3

alerts(overdueSteps, upcomingSteps, overdueEvents) ==
    LET a1 == IF overdueSteps > 0
              THEN <<Alert("warning", "high", overdueSteps)>> ELSE <<>>
        a2 == IF upcomingSteps > 0
              THEN Append(a1, Alert("info", "medium", upcomingSteps)) ELSE a1
        a3 == IF overdueEvents > 0
              THEN Append(a2, Alert("error", "high", overdueEvents)) ELSE a2
    IN a3

Counts == 0..MaxCount

AlertsRequest ==
    /\ Pending("alerts")
    /\ response' = [op |-> "alerts",
                    alerts |-> alerts(request.overdueSteps, request.upcomingSteps,
                                      request.overdueEvents)]
    /\ UNCHANGED <<properties, steps, now, request, events, documents>>

(***************************************************************************)
(* routes/calendar.js : GET /api/calendar/events, the derived flags. Each  *)
(* `new Date()` is one read of the clock; reads[1..4] are the four reads   *)
(* in evaluation order.                                                    *)
(***************************************************************************)
enrich(startDate, endDate, reads) ==
    [isPast |-> reads[1] > endDate,
     isOngoing |-> reads[2] >= startDate /\ reads[3] <= endDate,
     isUpcoming |-> reads[4] < startDate]

ClockReads ==
    {r \in [1..4 -> 0..(MaxTime + 1)] : \A i \in 1..3 : r[i] <= r[i + 1]}

EventWindows == {w \in Times \X Times : w[1] < w[2]}

EnrichRequest ==
    /\ Pending("events")
    /\ response' = [op |-> "events",
                    flags |-> enrich(request.startDate, request.endDate, request.reads)]
    /\ UNCHANGED <<properties, steps, now, request, events, documents>>

(***************************************************************************)
(* server.js : GET /api/dashboard/recent-activity. A source is the set of  *)
(* timestamps of its records that pass the query's filter (visible,        *)
(* active, inside the window); timestamps are distinct across sources.     *)
(***************************************************************************)
SetMax(S) == CHOOSE m \in S : \A x \in S : x <= m

\* .sort({<timestamp>: -1}).limit(k)
RECURSIVE findRecent(_, _)
findRecent(S, k) ==
    IF k = 0 \/ S = {} THEN <<>>
    ELSE <<SetMax(S)>> \o findRecent(S \ {SetMax(S)}, k - 1)

\* the records of a query result as activities of one type
RECURSIVE asActivities(_, _)
asActivities(type, dates) ==
    IF dates = <<>> THEN <<>>
    ELSE <<[type |-> type, date |-> Head(dates)]>> \o asActivities(type, Tail(dates))

\* Array.prototype.sort((a, b) => b.date - a.date), a stable sort: x goes behind
\* every element that is not older
RECURSIVE insertByDateDesc(_, _)
insertByDateDesc(sorted, x) ==
    IF sorted = <<>> THEN <<x>>
    ELSE IF Head(sorted).date >= x.date
    THEN <<Head(sorted)>> \o insertByDateDesc(Tail(sorted), x)
    ELSE <<x>> \o sorted

RECURSIVE sortByDateDesc(_)
sortByDateDesc(seq) ==
    IF seq = <<>> THEN <<>>
    ELSE insertByDateDesc(sortByDateDesc(SubSeq(seq, 1, Len(seq) - 1)), seq[Len(seq)])

\* .limit(limit / 4) : the requested limits are multiples of 4, so the quotient
\* is an integer
perSourceLimitMutantWhole(limit) == limit

perSourceLimit(limit) == limit \div 4

recentActivity(limit, src) ==
    LET k == perSourceLimit(limit)
        activities ==
            asActivities("step", findRecent(src.steps, k))
            \o asActivities("document", findRecent(src.documents, k))
            \o asActivities("event", findRecent(src.events, k))
            \o asActivities("property", findRecent(src.properties, k))
        sorted == sortByDateDesc(activities)
    IN SubSeq(sorted, 1, Min(limit, Len(sorted)))

MaxQuarter == 2
Limits == {4 * q : q \in 1..MaxQuarter}

SourceKinds == {"step", "document", "event", "property"}

SourcesOf(f) ==
    [steps |-> {t \in DOMAIN f : f[t] = "step"},
     documents |-> {t \in DOMAIN f : f[t] = "document"},
     events |-> {t \in DOMAIN f : f[t] = "event"},
     properties |-> {t \in DOMAIN f : f[t] = "property"}]

\* 4 steps, 4 documents, 2 events, 1 property, timestamped day 1..11
ExampleSources ==
    [steps |-> {1, 5, 8, 11}, documents |-> {2, 6, 9, 10},
     events |-> {3, 7}, properties |-> {4}]

ActivityInputs ==
    {SourcesOf(f) : f \in [1..MaxStamp -> SourceKinds \cup {"none"}]}
        \cup {ExampleSources}

ActivityRequest ==
    /\ Pending("activity")
    /\ response' = [op |-> "activity",
                    feed |-> recentActivity(request.limit, request.sources)]
    /\ UNCHANGED <<properties, steps, now, request, events, documents>>

(***************************************************************************)
(* The property list and the dashboard overview, read from the store       *)
(***************************************************************************)
\* DELETE /api/properties/:id (soft delete)
DeleteProperty(u, p) ==
    /\ IF ~(p \in PropIds /\ IsOwner(u, p))
       THEN /\ response' = Reply("deleteProperty", 404, 0, "none", "none")
            /\ UNCHANGED properties
       ELSE /\ properties' = [properties EXCEPT ![p].isActive = FALSE]
            /\ response' = Reply("deleteProperty", 200, p, "none", "none")
    /\ UNCHANGED <<steps, now, request, events, documents>>

\* GET /api/properties : filter = {owner: req.user.id, isActive: true}, no optional
\* query filter, first page
ListProperties(u) ==
    /\ response' = [op |-> "listProperties", code |-> 200, user |-> u,
                    properties |-> {p \in PropIds :
                                      properties[p].owner = u /\ properties[p].isActive}]
    /\ UNCHANGED <<properties, steps, now, request, events, documents>>

\* GET /api/dashboard/overview : propertyFilter
overviewPropertyIds(u) ==
    {p \in PropIds : /\ properties[p].owner = u \/ u \in properties[p].sharedWith
                     /\ properties[p].isActive}

\* Step.countDocuments({property: {$in: propertyIds}, isActive: true})
overviewTotalSteps(ids) ==
    Cardinality({i \in StepIds : steps[i].property \in ids /\ steps[i].isActive})

\* the count of the group _id = 'completed' of stepsByStatus, or 0
overviewCompletedSteps(ids) ==
    Cardinality({i \in StepIds : /\ steps[i].property \in ids
                                 /\ steps[i].isActive
                                 /\ steps[i].status = "completed"})

\* Step.countDocuments({property, isActive, status: {$in: ['pending', 'in_progress']},
\* deadline: {$lt: now}}) : the Step schema has no path `deadline` (the deadline is
\* dates.deadline) and stores no such field. With strictQuery the condition on the
\* unknown path is removed from the filter; without it no document satisfies it.
overviewOverdueSteps(ids, strictQuery) ==
    Cardinality({i \in StepIds : /\ steps[i].property \in ids
                                 /\ steps[i].isActive
                                 /\ steps[i].status \in {"pending", "in_progress"}
                                 /\ strictQuery})

\* globalProgress
globalProgress(completedSteps, totalSteps) ==
    IF totalSteps > 0 THEN mathRoundPercent(completedSteps, totalSteps) ELSE 0

\* GET /api/dashboard/overview : the property and step figures; strictQuery is
\* the setting of the Mongoose build
Overview(u, strictQuery) ==
    /\ response' =
          LET ids == overviewPropertyIds(u)
          IN [op |-> "overview", code |-> 200, user |-> u, at |-> now,
              properties |-> ids,
              totalSteps |-> overviewTotalSteps(ids),
              completedSteps |-> overviewCompletedSteps(ids),
              overdueSteps |-> overviewOverdueSteps(ids, strictQuery),
              globalProgress |-> globalProgress(overviewCompletedSteps(ids),
                                                overviewTotalSteps(ids))]
    /\ UNCHANGED <<properties, steps, now, request, events, documents>>

\* the overview's progress figure for given step counts
MaxTotalSteps == 40

GlobalProgressRequest ==
    /\ Pending("globalProgress")
    /\ response' = [op |-> "globalProgress",
                    globalProgress |-> globalProgress(request.completedSteps,
                                                      request.totalSteps)]
    /\ UNCHANGED <<properties, steps, now, request, events, documents>>

(***************************************************************************)
(* SpecViews: what the list and the overview show of the store. Any user   *)
(* creates and deletes properties and steps; the step bodies carry a       *)
(* status and a deadline.                                                  *)
(***************************************************************************)
ViewBodies == {b \in StepBodies : b.completionPercentage = Absent}

NextViews ==
    \/ \E u \in Users, shared \in SUBSET Users : CreateProperty(u, shared)
    \/ \E u \in Users, p \in 1..MaxProps : DeleteProperty(u, p)
    \/ \E u \in Users, p \in 1..MaxProps, b \in ViewBodies : CreateStep(u, p, b)
    \/ \E u \in Users, id \in 1..MaxSteps : DeleteStep(u, id)
    \/ Tick
    \/ \E u \in Users : ListProperties(u)
    \/ \E u \in Users, strictQuery \in BOOLEAN : Overview(u, strictQuery)

SpecViews == Init /\ [][NextViews]_vars

(***************************************************************************)
(* The read-by-id routes. `found` is what findById(...).populate(...)      *)
(* gives: Missing, or the record with the owner and the share set that the *)
(* access check reads.                                                     *)
(***************************************************************************)
Missing == [exists |-> FALSE]

FoundRecords == {Missing} \cup [exists : {TRUE}, owner : Users, sharedWith : SUBSET Users]

Answer(code, message) == [code |-> code, message |-> message]

\* GET /api/steps/:id : owner is step.property.owner, sharedWith the share set of
\* that property
getStep(found, u) ==
    IF ~found.exists THEN Answer(404, "Etape non trouvee")
    ELSE IF found.owner # u /\ u \notin found.sharedWith THEN Answer(403, "Acces refuse")
    ELSE Answer(200, "step")

\* GET /api/calendar/events/:id : owner is event.owner, sharedWith event.sharedWith
getEvent(found, u) ==
    IF ~found.exists THEN Answer(404, "Evenement non trouve")
    ELSE IF ~(found.owner = u \/ u \in found.sharedWith) THEN Answer(403, "Acces refuse")
    ELSE Answer(200, "event")

\* GET /api/documents/:id : owner is document.property.owner, sharedWith
\* document.sharedWith
getDocument(found, u) ==
    IF ~found.exists THEN Answer(404, "Document non trouve")
    ELSE IF ~(found.owner = u \/ u \in found.sharedWith) THEN Answer(403, "Acces refuse")
    ELSE Answer(200, "document")

EntityKinds == {"step", "event", "document"}

getById(kind, found, u) ==
    CASE kind = "step" -> getStep(found, u)
      [] kind = "event" -> getEvent(found, u)
      [] kind = "document" -> getDocument(found, u)

GetByIdRequest ==
    /\ Pending("getById")
    /\ response' = [op |-> "getById",
                    answer |-> getById(request.kind, request.found, request.user)]
    /\ UNCHANGED <<properties, steps, now, request, events, documents>>

(***************************************************************************)
(* server.js : GET /api/dashboard/analytics. The aggregation pipelines run *)
(* on the stored Step documents; an aggregation is not cast against the    *)
(* schema, so a condition on a path is evaluated on the paths a document   *)
(* holds. A stored step is a record of the fields the analytics read.      *)
(***************************************************************************)
Null == [kind |-> "null", value |-> 0]

\* a Step schema that declares the paths the pipelines read
StoredPathsMutantPipelinePaths(d) ==
    {"isActive", "status", "category", "costs.currency"}
    \cup (IF d.actualStart # NoDate THEN {"actualStartDate"} ELSE {})
    \cup (IF d.actualEnd # NoDate THEN {"actualEndDate"} ELSE {})

\* the paths of a stored Step document (stepSchema), among those of the record
StoredPaths(d) ==
    {"isActive", "status", "category", "costs.currency"}
    \cup (IF d.actualStart # NoDate THEN {"dates.actualStart"} ELSE {})
    \cup (IF d.actualEnd # NoDate THEN {"dates.actualEnd"} ELSE {})
    \cup (IF d.estimated # Absent THEN {"costs.estimated"} ELSE {})
    \cup (IF d.actual # Absent THEN {"costs.actual"} ELSE {})

\* the value at a path of a stored document, Null for a path it does not hold
PathValue(d, path) ==
    IF path \notin StoredPaths(d) THEN Null
    ELSE CASE path = "dates.actualStart" -> Num(d.actualStart)
           [] path = "dates.actualEnd" -> Num(d.actualEnd)
           [] path = "costs.estimated" -> Num(d.estimated)
           [] path = "costs.actual" -> Num(d.actual)
           [] OTHER -> Null

\* {path: {$gt: 0}}
GtZero(d, path) == PathValue(d, path).kind = "number" /\ PathValue(d, path).value > 0

\* {path: {$exists: true}}
Exists(d, path) == path \in StoredPaths(d)

\* $sum of the numeric values of f over the indices in S (a non-number adds 0)
RECURSIVE SumOver(_, _, _)
SumOver(docs, S, path) ==
    IF S = {} THEN 0
    ELSE LET i == CHOOSE x \in S : TRUE
             v == PathValue(docs[i], path)
         IN (IF v.kind = "number" THEN v.value ELSE 0) + SumOver(docs, S \ {i}, path)

\* costsByCategory: $match {isActive: true, 'costs.amount': {$gt: 0}}, $unwind
\* '$costs' (costs is one object: one output per document), $group by
\* '$costs.category' with $sum of '$costs.amount' and the count
costsByCategory(docs) ==
    LET matched == {i \in DOMAIN docs : docs[i].isActive /\ GtZero(docs[i], "costs.amount")}
        keys == {PathValue(docs[i], "costs.category") : i \in matched}
    IN {[id |-> k,
         totalAmount |-> SumOver(docs, {i \in matched :
                                          PathValue(docs[i], "costs.category") = k},
                                 "costs.amount"),
         count |-> Cardinality({i \in matched : PathValue(docs[i], "costs.category") = k})] :
        k \in keys}

\* stepDurations: $match {isActive: true, status: 'completed', actualStartDate:
\* {$exists: true}, actualEndDate: {$exists: true}}, $group by '$category' with the
\* count (the duration figures are not modelled)
stepDurations(docs) ==
    LET matched == {i \in DOMAIN docs : /\ docs[i].isActive
                                        /\ docs[i].status = "completed"
                                        /\ Exists(docs[i], "actualStartDate")
                                        /\ Exists(docs[i], "actualEndDate")}
    IN {[id |-> c, count |-> Cardinality({i \in matched : docs[i].category = c})] :
        c \in {docs[i].category : i \in matched}}

MaxAnalyticsSteps == 2
CostAmounts == {0, 500}
Categories == {"visite", "offre"}

CostDocs ==
    [isActive : BOOLEAN, status : {"todo"}, category : {"offre"},
     actualStart : {NoDate}, actualEnd : {NoDate},
     estimated : CostAmounts, actual : {500, Absent}]

\* a completed step with both timestamps per category, and that step with one
\* of the conditions of the $match stage failing
DurationDocs ==
    LET timed(c) == [isActive |-> TRUE, status |-> "completed", category |-> c,
                     actualStart |-> 1, actualEnd |-> 2,
                     estimated |-> Absent, actual |-> Absent]
    IN {timed(c) : c \in Categories}
       \cup {[timed("visite") EXCEPT !.isActive = FALSE],
             [timed("visite") EXCEPT !.status = "in_progress"],
             [timed("visite") EXCEPT !.actualStart = NoDate],
             [timed("visite") EXCEPT !.actualEnd = NoDate]}

SeqsUpTo(S, n) == UNION {[1..k -> S] : k \in 0..n}

\* three completed steps of one category, one of them without dates.actualEnd
ExampleDurationDocs ==
    LET d == [isActive |-> TRUE, status |-> "completed", category |-> "visite",
              actualStart |-> 1, actualEnd |-> 2, estimated |-> Absent, actual |-> Absent]
    IN <<d, d, [d EXCEPT !.actualEnd = NoDate]>>

CostsRequest ==
    /\ Pending("costs")
    /\ response' = [op |-> "costs", costsByCategory |-> costsByCategory(request.docs)]
    /\ UNCHANGED <<properties, steps, now, request, events, documents>>

DurationsRequest ==
    /\ Pending("durations")
    /\ response' = [op |-> "durations", stepDurations |-> stepDurations(request.docs)]
    /\ UNCHANGED <<properties, steps, now, request, events, documents>>

\* the stored steps of two properties, of which the caller sees the first
AnalyticsDocs ==
    {[isActive |-> d.isActive, status |-> d.status, category |-> d.category,
      actualStart |-> d.actualStart, actualEnd |-> d.actualEnd,
      estimated |-> d.estimated, actual |-> d.actual, property |-> p] :
        d \in {x \in DurationDocs \cup CostDocs :
                  x.isActive /\ (x.status = "completed" \/ x.estimated = 500)},
        p \in {1, 2}}

\* GET /api/dashboard/analytics : the two Step pipelines; propertyFilter (the
\* caller's visible properties) is given to the Property pipeline only
AnalyticsRequest ==
    /\ Pending("analytics")
    /\ response' = [op |-> "analytics",
                    stepDurations |-> stepDurations(request.docs),
                    costsByCategory |-> costsByCategory(request.docs)]
    /\ UNCHANGED <<properties, steps, now, request, events, documents>>

(***************************************************************************)
(* models/Step.js : the two recomputations of completionPercentage, on a   *)
(* loaded step                                                             *)
(***************************************************************************)
StoredPercentages == {0, 10, 50, 100}

RecomputeInputs ==
    {[NewStep(1, 1) EXCEPT !.status = st, !.checklist = cl, !.completionPercentage = cp] :
        st \in StepStatus, cl \in Checklists, cp \in StoredPercentages}

\* the save hook after a status or checklist change, and updateCompletionPercentage()
RecomputeRequest ==
    /\ Pending("recompute")
    /\ response' = [op |-> "recompute",
                    hook |-> preSave(request.step, TRUE, TRUE).completionPercentage,
                    method |-> updateCompletionPercentage(request.step).completionPercentage]
    /\ UNCHANGED <<properties, steps, now, request, events, documents>>

(***************************************************************************)
(* server.js : GET /api/dashboard/progress, for one visible property.      *)
(* `docs` is the result of Step.find({property, isActive: true}) in the    *)
(* order the query returns it; a document is the record of its status,     *)
(* priority, order and dates.deadline.                                     *)
(***************************************************************************)
Bool(b) == [kind |-> "boolean", value |-> IF b THEN 1 ELSE 0]

\* s.deadline of a Step document: stepSchema has no top-level path `deadline` (the
\* deadline is the nested dates.deadline), so the property is undefined
topLevelDeadline(s) == Undefined

Truthy(v) == ~(v = Undefined \/ v = Null \/ v = Num(0) \/ v = Bool(FALSE))

\* steps.find(s => s.status === 'pending' && s.priority === 'high' && s.deadline):
\* the index of the first such document, or Undefined
nextCriticalStep(docs) ==
    LET hits == {i \in DOMAIN docs : /\ docs[i].status = "pending"
                                     /\ docs[i].priority = "high"
                                     /\ Truthy(topLevelDeadline(docs[i]))}
    IN IF hits = {} THEN Undefined
       ELSE [kind |-> "step", value |-> CHOOSE i \in hits : \A j \in hits : i <= j]

\* 7 days, in days
Week == 7

\* nextCriticalStep ? {name, category, deadline} : null
nextCriticalStepOutput(docs) ==
    IF Truthy(nextCriticalStep(docs)) THEN nextCriticalStep(docs) ELSE Null

\* alerts.hasUrgent: nextCriticalStep && new Date(nextCriticalStep.deadline) <=
\* new Date(Date.now() + 7 days)
hasUrgent(docs, t) ==
    IF ~Truthy(nextCriticalStep(docs)) THEN nextCriticalStep(docs)
    ELSE LET d == topLevelDeadline(docs[nextCriticalStep(docs).value])
         IN Bool(d.kind = "number" /\ d.value <= t + Week)

MaxReportSteps == 2

\* a to-do, high-priority step with a deadline inside or outside the week,
\* and that step with one of the three conditions failing
ReportDocs ==
    LET critical(o, d) == [status |-> "todo", priority |-> "high",
                           order |-> o, deadline |-> d]
    IN UNION {{critical(o, 2), critical(o, Week + 2),
               [critical(o, 2) EXCEPT !.status = "completed"],
               [critical(o, 2) EXCEPT !.priority = "medium"],
               critical(o, NoDate)} : o \in 1..MaxReportSteps}

ProgressReportRequest ==
    /\ Pending("progressReport")
    /\ response' = [op |-> "progressReport",
                    nextCriticalStep |-> nextCriticalStepOutput(request.docs),
                    hasUrgent |-> hasUrgent(request.docs, request.at)]
    /\ UNCHANGED <<properties, steps, now, request, events, documents>>

(***************************************************************************)
(* SpecReports: the read-only computations on bounded inputs               *)
(***************************************************************************)
ReportRequests ==
    {[op |-> "progress", status |-> st] : st \in StatusInputs}
    \cup {[op |-> "alerts", overdueSteps |-> a, upcomingSteps |-> b, overdueEvents |-> c] :
            a \in Counts, b \in Counts, c \in Counts}
    \cup {[op |-> "events", startDate |-> w[1], endDate |-> w[2], reads |-> r] :
            w \in EventWindows, r \in ClockReads}
    \cup {[op |-> "activity", limit |-> l, sources |-> src] :
            l \in Limits, src \in ActivityInputs}
    \cup {[op |-> "getById", kind |-> k, found |-> f, user |-> u] :
            k \in EntityKinds, f \in FoundRecords, u \in Users}
    \cup {[op |-> "costs", docs |-> d] : d \in SeqsUpTo(CostDocs, MaxAnalyticsSteps)}
    \cup {[op |-> "durations", docs |-> d] :
            d \in SeqsUpTo(DurationDocs, MaxAnalyticsSteps) \cup {ExampleDurationDocs}}
    \cup {[op |-> "analytics", visible |-> {1}, docs |-> d] :
            d \in SeqsUpTo(AnalyticsDocs, MaxAnalyticsSteps)}
    \cup {[op |-> "recompute", step |-> st] : st \in RecomputeInputs}
    \cup {[op |-> "progressReport", docs |-> d, at |-> 1] :
            d \in SeqsUpTo(ReportDocs, MaxReportSteps)}
    \cup {[op |-> "globalProgress", completedSteps |-> ct[1], totalSteps |-> ct[2]] :
            ct \in {x \in (0..MaxTotalSteps) \X (0..MaxTotalSteps) : x[1] <= x[2]}}

InitReports ==
    /\ properties = <<>>
    /\ steps = <<>>
    /\ events = <<>>
    /\ documents = <<>>
    /\ now = 1
    /\ request \in ReportRequests
    /\ response = Reply("none", 0, 0, "none", "none")

NextReports ==
    \/ ProgressRequest
    \/ AlertsRequest
    \/ EnrichRequest
    \/ ActivityRequest
    \/ GlobalProgressRequest
    \/ GetByIdRequest
    \/ CostsRequest
    \/ DurationsRequest
    \/ AnalyticsRequest
    \/ RecomputeRequest
    \/ ProgressReportRequest

SpecReports == InitReports /\ [][NextReports]_vars

(***************************************************************************)
(* routes/calendar.js : the event store. The CalendarEvent model is not    *)
(* among the sources: the schema default and the methods complete() and    *)
(* postpone() follow the specification's description of the lifecycle.     *)
(* Dates are day numbers.                                                  *)
(***************************************************************************)
MaxEvents == 1
EventIds == 1..Len(events)
EventDates == {1, 2, 3}

\* request bodies of POST /api/calendar/events and PUT /api/calendar/events/:id:
\* the two dates eventValidation requires (title and type are taken as valid)
EventBodies == [startDate : EventDates, endDate : EventDates]

\* eventValidation: the custom validator of endDate
eventValidation(b) == ~(b.endDate <= b.startDate)

NewEvent(u, b) ==
    [owner |-> u, sharedWith |-> {}, startDate |-> b.startDate, endDate |-> b.endDate,
     status |-> "scheduled", completedAt |-> NoDate, isActive |-> TRUE]

\* complete(outcome): stamps the completion
eventComplete(event, t) ==
    [event EXCEPT !.status = "completed", !.completedAt = t]

\* postpone(newStart, newEnd): rewrites the window; without newEnd the end moves
\* by the same delta as the start
postpone(event, newStart, newEnd) ==
    [event EXCEPT
        !.startDate = newStart,
        !.endDate = IF newEnd = Absent
                    THEN event.endDate + (newStart - event.startDate)
                    ELSE newEnd]

\* POST /api/calendar/events (no property given in the body)
CreateEvent(u, b) ==
    /\ Len(events) < MaxEvents
    /\ IF ~eventValidation(b)
       THEN /\ response' = Reply("createEvent", 400, 0, "none", "none")
            /\ UNCHANGED events
       ELSE /\ events' = Append(events, NewEvent(u, b))
            /\ response' = Reply("createEvent", 201, Len(events) + 1, "none", "none")
    /\ UNCHANGED <<properties, steps, documents, now, request>>

\* PUT /api/calendar/events/:id with the validation result read after the save
UpdateEventMutantAssignFirst(u, id, b) ==
    /\ IF id \notin EventIds
       THEN /\ response' = Reply("updateEvent", 404, 0, "none", "none")
            /\ UNCHANGED events
       ELSE IF events[id].owner # u
       THEN /\ response' = Reply("updateEvent", 403, 0, "none", "none")
            /\ UNCHANGED events
       ELSE /\ events' = [events EXCEPT ![id].startDate = b.startDate,
                                        ![id].endDate = b.endDate]
            /\ response' = Reply("updateEvent", IF eventValidation(b) THEN 200 ELSE 400,
                                 id, "none", "none")
    /\ UNCHANGED <<properties, steps, documents, now, request>>

\* PUT /api/calendar/events/:id
UpdateEvent(u, id, b) ==
    /\ IF ~eventValidation(b)
       THEN /\ response' = Reply("updateEvent", 400, 0, "none", "none")
            /\ UNCHANGED events
       ELSE IF id \notin EventIds
       THEN /\ response' = Reply("updateEvent", 404, 0, "none", "none")
            /\ UNCHANGED events
       ELSE IF events[id].owner # u
       THEN /\ response' = Reply("updateEvent", 403, 0, "none", "none")
            /\ UNCHANGED events
       ELSE /\ events' = [events EXCEPT ![id].startDate = b.startDate,
                                        ![id].endDate = b.endDate]
            /\ response' = Reply("updateEvent", 200, id, "none", "none")
    /\ UNCHANGED <<properties, steps, documents, now, request>>

\* PUT /api/calendar/events/:id/status
UpdateEventStatus(u, id, status) ==
    /\ IF status \notin {"scheduled", "confirmed", "completed", "cancelled", "postponed"}
       THEN /\ response' = Reply("updateEventStatus", 400, 0, "none", "none")
            /\ UNCHANGED events
       ELSE IF id \notin EventIds
       THEN /\ response' = Reply("updateEventStatus", 404, 0, "none", "none")
            /\ UNCHANGED events
       ELSE IF ~(events[id].owner = u \/ u \in events[id].sharedWith)
       THEN /\ response' = Reply("updateEventStatus", 403, 0, "none", "none")
            /\ UNCHANGED events
       ELSE /\ events' = [events EXCEPT ![id] =
                  IF status = "completed" THEN eventComplete(@, now)
                  ELSE [@ EXCEPT !.status = status]]
            /\ response' = Reply("updateEventStatus", 200, id, "none", status)
    /\ UNCHANGED <<properties, steps, documents, now, request>>

\* POST /api/calendar/events/:id/postpone : both dates pass isISO8601, newEndDate
\* is optional
PostponeEvent(u, id, newStartDate, newEndDate) ==
    /\ IF id \notin EventIds
       THEN /\ response' = Reply("postpone", 404, 0, "none", "none")
            /\ UNCHANGED events
       ELSE IF events[id].owner # u
       THEN /\ response' = Reply("postpone", 403, 0, "none", "none")
            /\ UNCHANGED events
       ELSE /\ events' = [events EXCEPT ![id] = postpone(@, newStartDate, newEndDate)]
            /\ response' = Reply("postpone", 200, id, "none", "none")
    /\ UNCHANGED <<properties, steps, documents, now, request>>

(***************************************************************************)
(* SpecEvents: the event store, with the requests on the step store that   *)
(* validate their payload. The owner u1 creates; u1 and u2 address the     *)
(* events.                                                                 *)
(***************************************************************************)
NextEvents ==
    \/ \E u \in Owners, shared \in Shares : CreateProperty(u, shared)
    \/ \E u \in Owners, p \in 1..MaxProps, b \in OrderBodies : CreateStep(u, p, b)
    \/ \E u \in Owners, id \in TargetIds, st \in {"completed", "bogus"} :
          UpdateStepStatus(u, id, st)
    \/ \E u \in Owners, id \in TargetIds, cl \in {<<>>, NotAnArray} :
          UpdateChecklist(u, id, cl)
    \/ \E u \in Owners, p \in 1..MaxProps :
          \E list \in UNION {[ids -> Orders \cup {0}] : ids \in SUBSET TargetIds} :
          ReorderSteps(u, p, list)
    \/ \E u \in Owners, b \in EventBodies : CreateEvent(u, b)
    \/ \E u \in {"u1", "u2"}, id \in 1..MaxEvents, b \in EventBodies :
          UpdateEvent(u, id, b)
    \/ \E u \in {"u1", "u2"}, id \in 1..MaxEvents, st \in {"completed", "bogus"} :
          UpdateEventStatus(u, id, st)
    \/ \E u \in {"u1", "u2"}, id \in 1..MaxEvents, e \in EventDates \cup {Absent} :
          PostponeEvent(u, id, 2, e)

SpecEvents == Init /\ [][NextEvents]_vars

(***************************************************************************)
(* SpecAccess: who may read and change what. The store holds two           *)
(* properties with their default steps: the first owned by u1 and shared   *)
(* with u2, the second owned by u3 and shared with nobody.                 *)
(***************************************************************************)
\* GET /api/properties/:id : Property.findOne({_id, $or: [owner, sharedWith.user]}),
\* then Step.find({property})
GetProperty(u, p) ==
    /\ IF ~(p \in PropIds /\ (IsOwner(u, p) \/ IsShared(u, p)))
       THEN response' = Reply("getProperty", 404, 0, "none", "none")
       ELSE response' = [op |-> "getProperty", code |-> 200, id |-> p, old |-> "none",
                         arg |-> "none",
                         steps |-> {i \in StepIds : steps[i].property = p}]
    /\ UNCHANGED <<properties, steps, events, documents, now, request>>

\* GET /api/steps/:id : Step.findById(id).populate('property'), then the access check
GetStep(u, id) ==
    /\ LET found == IF id \in StepIds
                    THEN [exists |-> TRUE, owner |-> properties[steps[id].property].owner,
                          sharedWith |-> properties[steps[id].property].sharedWith]
                    ELSE Missing
       IN response' = Reply("getStep", getStep(found, u).code,
                            IF getStep(found, u).code = 200 THEN id ELSE 0,
                            "none", "none")
    /\ UNCHANGED <<properties, steps, events, documents, now, request>>

AccessProperties ==
    <<[owner |-> "u1", sharedWith |-> {"u2"}, isActive |-> TRUE],
      [owner |-> "u3", sharedWith |-> {}, isActive |-> TRUE]>>

AccessIds == 1..Len(createDefaultSteps(1) \o createDefaultSteps(2))

AccessLists == UNION {[ids -> Orders] : ids \in SUBSET AccessIds}

InitAccess ==
    /\ properties = AccessProperties
    /\ steps = createDefaultSteps(1) \o createDefaultSteps(2)
    /\ events = <<>>
    /\ documents = <<>>
    /\ now = 1
    /\ request = NoRequest
    /\ response = Reply("none", 0, 0, "none", "none")

NextAccess ==
    \/ \E u \in Users, id \in AccessIds : DeleteStep(u, id)
    \/ \E u \in Users, p \in 1..Len(AccessProperties), list \in AccessLists :
          ReorderSteps(u, p, list)
    \/ \E u \in Users, id \in AccessIds, st \in {"completed", "cancelled"} :
          UpdateStepStatus(u, id, st)
    \/ \E u \in Users, p \in 1..Len(AccessProperties) : DeleteProperty(u, p)
    \/ \E u \in Users, p \in 1..Len(AccessProperties) : GetProperty(u, p)
    \/ \E u \in Users, id \in AccessIds : GetStep(u, id)

SpecAccess == InitAccess /\ [][NextAccess]_vars

(***************************************************************************)
(* SpecRace: requests whose handlers run interleaved. `request` is the     *)
(* sequence of the requests accepted so far; each holds the position of    *)
(* its handler (pc), what the handler has read, and, once done, its HTTP   *)
(* status. A step of the model is what a handler does between two awaits.  *)
(* The store holds one property of u1 with its default steps and one       *)
(* document of that property.                                              *)
(***************************************************************************)
MaxRequests == 2
RequestIds == 1..Len(request)

Done(r, code) == [request EXCEPT ![r].pc = "done", ![r].code = code]

\* POST /api/steps arrives
PostStep(u, b) ==
    /\ Len(request) < MaxRequests
    /\ request' = Append(request,
          [op |-> "createStep", pc |-> "findProperty", user |-> u, property |-> 1,
           body |-> b, code |-> 0])
    /\ UNCHANGED <<properties, steps, events, documents, now, response>>

\* POST /api/steps : Property.findOne({_id, owner})
CreateStepFindProperty(r) ==
    /\ r \in RequestIds /\ request[r].op = "createStep" /\ request[r].pc = "findProperty"
    /\ request' = IF ~(request[r].property \in PropIds
                         /\ IsOwner(request[r].user, request[r].property))
                  THEN Done(r, 404)
                  ELSE [request EXCEPT ![r].pc = "findExisting"]
    /\ UNCHANGED <<properties, steps, events, documents, now, response>>

\* POST /api/steps : Step.findOne({property, order, isActive: true})
CreateStepFindExisting(r) ==
    /\ r \in RequestIds /\ request[r].op = "createStep" /\ request[r].pc = "findExisting"
    /\ request' = IF OrderTaken(request[r].property, request[r].body.order)
                  THEN Done(r, 400)
                  ELSE [request EXCEPT ![r].pc = "save"]
    /\ UNCHANGED <<properties, steps, events, documents, now, response>>

\* POST /api/steps : new Step(req.body).save()
CreateStepSave(r) ==
    /\ r \in RequestIds /\ request[r].op = "createStep" /\ request[r].pc = "save"
    /\ steps' = Append(steps,
          preSave(assignBody(NewStep(request[r].property, request[r].body.order),
                             request[r].body),
                  request[r].body.status # "absent", FALSE))
    /\ request' = Done(r, 201)
    /\ UNCHANGED <<properties, events, documents, now, response>>

\* GET /api/documents/:id/download arrives
GetDownload(u, d) ==
    /\ Len(request) < MaxRequests
    /\ request' = Append(request,
          [op |-> "download", pc |-> "findById", user |-> u, document |-> d,
           downloadCount |-> 0, code |-> 0])
    /\ UNCHANGED <<properties, steps, events, documents, now, response>>

\* GET /api/documents/:id/download : Document.findById and the access check; the
\* file is on the disk
DownloadFindById(r) ==
    /\ r \in RequestIds /\ request[r].op = "download" /\ request[r].pc = "findById"
    /\ request' =
          LET d == request[r].document
          IN IF d \notin 1..Len(documents) THEN Done(r, 404)
             ELSE IF ~(IsOwner(request[r].user, documents[d].property)
                       \/ request[r].user \in documents[d].sharedWith)
             THEN Done(r, 403)
             ELSE [request EXCEPT ![r].pc = "save",
                                  ![r].downloadCount = documents[d].downloadCount]
    /\ UNCHANGED <<properties, steps, events, documents, now, response>>

\* incrementDownloadCount: this.downloadCount += 1 on the loaded document, then
\* save() writes the modified path
incrementDownloadCount(loaded) == loaded + 1

DownloadSave(r) ==
    /\ r \in RequestIds /\ request[r].op = "download" /\ request[r].pc = "save"
    /\ documents' = [documents EXCEPT ![request[r].document].downloadCount =
                        incrementDownloadCount(request[r].downloadCount)]
    /\ request' = Done(r, 200)
    /\ UNCHANGED <<properties, steps, events, now, response>>

\* GET /api/dashboard/overview arrives
GetOverview(u) ==
    /\ Len(request) < MaxRequests
    /\ request' = Append(request,
          [op |-> "overview", pc |-> "properties", user |-> u, propertyIds |-> {},
           pending |-> {"totalSteps", "stepsByStatus"},
           totalSteps |-> 0, stepsByStatus |-> [st \in StepStatus |-> 0],
           completedSteps |-> 0, globalProgress |-> 0, code |-> 0])
    /\ UNCHANGED <<properties, steps, events, documents, now, response>>

\* Step.aggregate([{$match: {property: {$in: propertyIds}, isActive: true}},
\* {$group: {_id: '$status', count: {$sum: 1}}}]) : a status without group counts 0
overviewStepsByStatus(ids) ==
    [st \in StepStatus |->
        Cardinality({i \in StepIds : /\ steps[i].property \in ids
                                     /\ steps[i].isActive
                                     /\ steps[i].status = st})]

\* GET /api/dashboard/overview : Property.find(propertyFilter)
OverviewProperties(r) ==
    /\ r \in RequestIds /\ request[r].op = "overview" /\ request[r].pc = "properties"
    /\ request' = [request EXCEPT ![r].pc = "steps",
                                  ![r].propertyIds = overviewPropertyIds(request[r].user)]
    /\ UNCHANGED <<properties, steps, events, documents, now, response>>

\* GET /api/dashboard/overview : one of the queries of the Promise.all on the Step
\* collection (the overdue and upcoming counts are left out)
OverviewStepQuery(r, q) ==
    /\ r \in RequestIds /\ request[r].op = "overview" /\ request[r].pc = "steps"
    /\ q \in request[r].pending
    /\ request' =
          IF q = "totalSteps"
          THEN [request EXCEPT ![r].pending = @ \ {q},
                               ![r].totalSteps = overviewTotalSteps(request[r].propertyIds)]
          ELSE [request EXCEPT ![r].pending = @ \ {q},
                               ![r].stepsByStatus =
                                   overviewStepsByStatus(request[r].propertyIds)]
    /\ UNCHANGED <<properties, steps, events, documents, now, response>>

\* GET /api/dashboard/overview : completedSteps, globalProgress and the response
OverviewRespond(r) ==
    /\ r \in RequestIds /\ request[r].op = "overview" /\ request[r].pc = "steps"
    /\ request[r].pending = {}
    /\ request' = [request EXCEPT
          ![r].pc = "done",
          ![r].code = 200,
          ![r].completedSteps = request[r].stepsByStatus["completed"],
          ![r].globalProgress = globalProgress(request[r].stepsByStatus["completed"],
                                               request[r].totalSteps)]
    /\ UNCHANGED <<properties, steps, events, documents, now, response>>

InitRace ==
    /\ properties = <<[owner |-> "u1", sharedWith |-> {"u2"}, isActive |-> TRUE]>>
    /\ steps = createDefaultSteps(1)
    /\ events = <<>>
    /\ documents = <<[property |-> 1, sharedWith |-> {}, downloadCount |-> 0,
                      isActive |-> TRUE]>>
    /\ now = 1
    /\ request = <<>>
    /\ response = Reply("none", 0, 0, "none", "none")

NextRace ==
    \/ \E u \in {"u1", "u3"} :
          \E b \in {x \in StepBodies : /\ x.status \in {"absent", "completed"}
                                      /\ x.completionPercentage = Absent
                                      /\ x.deadline = Absent} : PostStep(u, b)
    \/ \E r \in 1..MaxRequests : CreateStepFindProperty(r)
    \/ \E r \in 1..MaxRequests : CreateStepFindExisting(r)
    \/ \E r \in 1..MaxRequests : CreateStepSave(r)
    \/ \E u \in {"u1", "u3"}, d \in {1, 2} : GetDownload(u, d)
    \/ \E r \in 1..MaxRequests : DownloadFindById(r)
    \/ \E r \in 1..MaxRequests : DownloadSave(r)
    \/ \E u \in {"u1", "u3"} : GetOverview(u)
    \/ \E r \in 1..MaxRequests : OverviewProperties(r)
    \/ \E r \in 1..MaxRequests, q \in {"totalSteps", "stepsByStatus"} :
          OverviewStepQuery(r, q)
    \/ \E r \in 1..MaxRequests : OverviewRespond(r)

SpecRace == InitRace /\ [][NextRace]_vars

(***************************************************************************)
(* Properties                                                              *)
(***************************************************************************)
ProgressTable ==
    <<<<"searching", 10>>, <<"visiting", 20>>, <<"offer_made", 40>>,
      <<"compromis_signed", 60>>, <<"loan_pending", 75>>, <<"final_signature", 90>>,
      <<"keys_received", 100>>, <<"cancelled", 0>>>>

TableValue(status) ==
    IF \E i \in DOMAIN ProgressTable : ProgressTable[i][1] = status
    THEN ProgressTable[CHOOSE i \in DOMAIN ProgressTable : ProgressTable[i][1] = status][2]
    ELSE 0

\* C1: the progress of a Property status is the table's number for the eight
\* statuses and the number 0 for any other value, and the route helper and the
\* model method agree.
C1_ProgressTable ==
    response.op = "progress" =>
        /\ response.helper = Num(TableValue(request.status))
        /\ response.method = response.helper

\* C2: every step that is in_progress has a completionPercentage of at least 10.
C2_InProgressAtLeastTen ==
    \A i \in StepIds :
        steps[i].status = "in_progress" => steps[i].completionPercentage >= 10

\* the last request moved step response.id to in_progress through start() or the
\* status route, and the step's checklist is empty
MovedToInProgressEmpty ==
    /\ response.op \in {"start", "updateStatus"}
    /\ response.code = 200
    /\ response.old # "in_progress"
    /\ steps[response.id].status = "in_progress"
    /\ steps[response.id].checklist = <<>>

\* C3 as stated: a step with an empty checklist that is moved to in_progress gets
\* a completionPercentage of exactly 10.
C3_EmptyChecklistGivesTen ==
    MovedToInProgressEmpty => steps[response.id].completionPercentage = 10

\* C3 amended: a step with an empty checklist that is moved to in_progress gets a
\* completionPercentage of exactly 100 (the checklist completion of an empty
\* checklist is 100 and max(100, 10) = 100).
C3_EmptyChecklistGivesHundred ==
    MovedToInProgressEmpty => steps[response.id].completionPercentage = 100

C3_Witness ==
    /\ MovedToInProgressEmpty
    /\ response.op = "start"
    /\ response.old = "todo"

\* C4: every step that is completed has a completionPercentage of 100.
C4_CompletedIsHundred ==
    \A i \in StepIds :
        steps[i].status = "completed" => steps[i].completionPercentage = 100

\* C5: start() on a step that is not todo changes nothing of the step; from todo
\* it sets status in_progress and stamps actualStart with the current time; a
\* status request of in_progress for a step that is already in_progress changes
\* nothing either.
C5_StartOnlyFromTodo ==
    [][/\ (response'.op = "start" /\ response'.old # "todo")
            => steps' = steps
       /\ (response'.op = "start" /\ response'.old = "todo" /\ steps' # steps)
            => /\ steps'[response'.id].status = "in_progress"
               /\ steps'[response'.id].actualStart = now
               /\ \A i \in StepIds : i # response'.id => steps'[i] = steps[i]
       /\ (/\ response'.op = "updateStatus"
           /\ response'.code = 200
           /\ response'.arg = "in_progress"
           /\ response'.old = "in_progress")
            => steps' = steps]_vars

C5_Witness ==
    /\ response.op = "start"
    /\ response.old = "in_progress"
    /\ steps[response.id].actualStart # now

\* C6: a completed or cancelled step is never overdue, and stats.overdue counts
\* no completed or cancelled step.
C6_DoneNeverOverdue ==
    /\ \A i \in StepIds :
          steps[i].status \in {"completed", "cancelled"} => ~isOverdue(steps[i], now)
    /\ (response.op = "stepStats" /\ response.code = 200) =>
          response.overdue <=
              Cardinality({i \in StepIds :
                  /\ steps[i].property = response.id
                  /\ steps[i].isActive
                  /\ steps[i].status \notin {"completed", "cancelled"}})

\* C7: no two active steps of one property have the same order.
C7_UniqueOrder ==
    \A i \in StepIds, j \in StepIds :
        (/\ i # j
         /\ steps[i].isActive
         /\ steps[j].isActive
         /\ steps[i].property = steps[j].property)
            => steps[i].order # steps[j].order

\* the records of all four sources of an activity request, as activities
AllActivities(src) ==
    {[type |-> "step", date |-> t] : t \in src.steps}
    \cup {[type |-> "document", date |-> t] : t \in src.documents}
    \cup {[type |-> "event", date |-> t] : t \in src.events}
    \cup {[type |-> "property", date |-> t] : t \in src.properties}

\* the n most recent activities of a set
MostRecent(A, n) == {a \in A : Cardinality({b \in A : b.date > a.date}) < n}

FeedSet == {response.feed[i] : i \in DOMAIN response.feed}

StrictlyDescending(feed) ==
    \A i \in DOMAIN feed : \A j \in DOMAIN feed : i < j => feed[i].date > feed[j].date

\* C8 as stated: when the sources hold at least L records in total, the feed is
\* exactly the L most recent of all of them, in strictly descending order.
C8_FeedIsTopOfAll ==
    (/\ response.op = "activity"
     /\ Cardinality(AllActivities(request.sources)) >= request.limit)
        => /\ Len(response.feed) = request.limit
           /\ FeedSet = MostRecent(AllActivities(request.sources), request.limit)
           /\ StrictlyDescending(response.feed)

\* the L/4 most recent records of each source
PerSourceRecent(src, limit) ==
    MostRecent({a \in AllActivities(src) : a.type = "step"}, limit \div 4)
    \cup MostRecent({a \in AllActivities(src) : a.type = "document"}, limit \div 4)
    \cup MostRecent({a \in AllActivities(src) : a.type = "event"}, limit \div 4)
    \cup MostRecent({a \in AllActivities(src) : a.type = "property"}, limit \div 4)

\* C8 amended: for a limit L that is a multiple of 4 the feed holds exactly the L/4
\* most recent records of each source (all of a source that has fewer), in
\* strictly descending order; it has L records only when every source holds at
\* least L/4, and 4 steps, 4 documents, 2 events, 1 property with limit 8 give 7.
C8_FeedIsTopOfEachSource ==
    response.op = "activity" =>
        /\ FeedSet = PerSourceRecent(request.sources, request.limit)
        /\ Len(response.feed) = Cardinality(PerSourceRecent(request.sources, request.limit))
        /\ StrictlyDescending(response.feed)
        /\ (Len(response.feed) = request.limit) <=>
              /\ Cardinality(request.sources.steps) >= request.limit \div 4
              /\ Cardinality(request.sources.documents) >= request.limit \div 4
              /\ Cardinality(request.sources.events) >= request.limit \div 4
              /\ Cardinality(request.sources.properties) >= request.limit \div 4
        /\ (request.sources = ExampleSources /\ request.limit = 8)
              => Len(response.feed) = 7

C8_Witness ==
    /\ response.op = "activity"
    /\ request.sources = ExampleSources
    /\ request.limit = 8
    /\ Len(response.feed) = 7

\* C9: the alert list is, in this order, the warning/high alert iff overdueSteps > 0,
\* the info/medium alert iff upcomingSteps > 0, the error/high alert iff
\* overdueEvents > 0, each carrying its count; no alert for a zero count.
C9_Alerts ==
    response.op = "alerts" =>
        response.alerts =
            SelectSeq(<<[type |-> "warning", priority |-> "high",
                         count |-> request.overdueSteps],
                        [type |-> "info", priority |-> "medium",
                         count |-> request.upcomingSteps],
                        [type |-> "error", priority |-> "high",
                         count |-> request.overdueEvents]>>,
                      LAMBDA a : a.count > 0)

C9_Witness ==
    /\ response.op = "alerts"
    /\ request.overdueSteps = 3
    /\ request.upcomingSteps = 0
    /\ request.overdueEvents = 0
    /\ response.alerts = <<[type |-> "warning", priority |-> "high", count |-> 3]>>

\* C10: for an event with startDate < endDate exactly one of isPast, isOngoing,
\* isUpcoming is true, also when the clock advances between the reads.
C10_ExactlyOneFlag ==
    response.op = "events" =>
        Cardinality({f \in {"isPast", "isOngoing", "isUpcoming"} : response.flags[f]}) = 1

\* the active properties visible to user u: owned by u or shared with u
VisibleProperties(u) ==
    {p \in PropIds : /\ properties[p].isActive
                     /\ properties[p].owner = u \/ u \in properties[p].sharedWith}

\* C11: the property list returns to a caller every active property they own and
\* every one whose share set lists them, the same set the overview counts.
C11_ListShowsVisible ==
    /\ response.op = "listProperties" => response.properties = VisibleProperties(response.user)
    /\ response.op = "overview" => response.properties = VisibleProperties(response.user)

\* C12: reading by id a step, a document or an event that exists but is outside the
\* caller's visibility gets the same response as reading an id that does not exist.
C12_HiddenLooksMissing ==
    (/\ response.op = "getById"
     /\ request.found.exists
     /\ request.found.owner # request.user
     /\ request.user \notin request.found.sharedWith)
        => response.answer = getById(request.kind, Missing, request.user)

\* C13: the cost aggregate leaves out every cost amount <= 0 and a positive cost of
\* an active step always appears in it: every group has a positive total, and an
\* active step with a positive cost is covered by a group whose total is at least
\* that cost.
C13_PositiveCostsAggregated ==
    response.op = "costs" =>
        /\ \A g \in response.costsByCategory : g.totalAmount > 0 /\ g.count > 0
        /\ \A i \in DOMAIN request.docs :
              \A c \in {request.docs[i].estimated, request.docs[i].actual} :
                 (request.docs[i].isActive /\ c > 0)
                    => \E g \in response.costsByCategory : g.totalAmount >= c

\* the active completed steps of category c that carry both actualStart and actualEnd
TimedCompleted(docs, c) ==
    {i \in DOMAIN docs : /\ docs[i].isActive
                         /\ docs[i].status = "completed"
                         /\ docs[i].category = c
                         /\ docs[i].actualStart # NoDate
                         /\ docs[i].actualEnd # NoDate}

\* C14: the duration statistics of a category are computed over exactly its active
\* completed steps that carry both timestamps: the count of the category's entry
\* is their number (2 for three completed steps of which one lacks actualEnd).
C14_DurationsOverTimedSteps ==
    response.op = "durations" =>
        \A c \in Categories :
            TimedCompleted(request.docs, c) # {} =>
                \E g \in response.stepDurations :
                    g.id = c /\ g.count = Cardinality(TimedCompleted(request.docs, c))

\* C15: a status request of completed by the owner succeeds whatever the step's
\* current status, and every successful one leaves the step completed, with
\* actualEnd stamped with the current time and completionPercentage 100.
C15_CompleteFromAnyStatus ==
    /\ [][(/\ response'.op = "updateStatus"
            /\ response'.code = 200
            /\ response'.arg = "completed"
            /\ \E u \in Users : UpdateStepStatus(u, response'.id, "completed"))
              => /\ steps'[response'.id].status = "completed"
                 /\ steps'[response'.id].actualEnd = now
                 /\ steps'[response'.id].completionPercentage = 100]_vars
    /\ [](\A id \in TargetIds \cap StepIds : \A u \in Owners :
            ENABLED (UpdateStepStatus(u, id, "completed") /\ response'.code = 200))

C15_Witness ==
    /\ response.op = "updateStatus"
    /\ response.code = 200
    /\ response.arg = "completed"
    /\ response.old = "cancelled"
    /\ steps[response.id].status = "completed"
    /\ steps[response.id].actualEnd = now
    /\ steps[response.id].completionPercentage = 100

\* C16: a recomputation for a cancelled or on_hold step, by the save hook or by
\* updateCompletionPercentage(), keeps the stored completionPercentage, and the two
\* compute the same value for every status and checklist.
C16_RecomputeKeepsOtherStatuses ==
    response.op = "recompute" =>
        /\ request.step.status \in {"cancelled", "on_hold"} =>
              /\ response.hook = request.step.completionPercentage
              /\ response.method = request.step.completionPercentage
        /\ response.hook = response.method

\* C17: in the overview, steps.overdue is the number of active steps of the caller's
\* visible properties whose deadline is set and strictly before now and whose
\* status is todo or in_progress.
C17_OverviewOverdue ==
    response.op = "overview" =>
        response.overdueSteps =
            Cardinality({i \in StepIds :
                /\ steps[i].property \in VisibleProperties(response.user)
                /\ steps[i].isActive
                /\ steps[i].deadline # NoDate
                /\ steps[i].deadline < response.at
                /\ steps[i].status \in {"todo", "in_progress"}})

\* C18: global progress is round(100 * completedSteps / totalSteps), and 0 when
\* totalSteps = 0.
C18_GlobalProgress ==
    response.op = "globalProgress" =>
        response.globalProgress =
            IF request.totalSteps = 0 THEN 0
            ELSE RoundPct(request.completedSteps, request.totalSteps)
\* the steps of a progress request with status todo, priority high and a deadline
CriticalSteps(docs) ==
    {i \in DOMAIN docs : /\ docs[i].status = "todo"
                         /\ docs[i].priority = "high"
                         /\ docs[i].deadline # NoDate}

\* those of lowest order
LowestCritical(docs) ==
    {i \in CriticalSteps(docs) : \A j \in CriticalSteps(docs) : docs[i].order <= docs[j].order}

\* C19: nextCriticalStep is null for a property without an active todo step of high
\* priority with a deadline, and otherwise it is such a step of the lowest order.
C19_NextCriticalStep ==
    response.op = "progressReport" =>
        IF CriticalSteps(request.docs) = {}
        THEN response.nextCriticalStep = Null
        ELSE /\ response.nextCriticalStep.kind = "step"
             /\ response.nextCriticalStep.value \in LowestCritical(request.docs)

\* C20: hasUrgent is the boolean true exactly when a next critical step exists and
\* its deadline is within 7 days from now, and the boolean false otherwise.
C20_HasUrgent ==
    response.op = "progressReport" =>
        response.hasUrgent =
            Bool(\E i \in LowestCritical(request.docs) :
                    request.docs[i].deadline <= request.at + Week)

\* C21: a mutation request answered 400 (out-of-enum step or event status,
\* non-chronological event window, duplicate step order, malformed checklist or
\* reorder payload) leaves the stored properties, steps, documents and events
\* as they were.
C21_RejectedBeforeWrite ==
    [][response'.code = 400 => UNCHANGED <<properties, steps, documents, events>>]_vars

C21_Witness ==
    /\ response.op = "updateEvent"
    /\ response.code = 400
    /\ Len(events) > 0
    /\ Len(steps) > DefaultStepCount

\* C22: every stored event ends strictly after it starts.
C22_EventWindowChronological ==
    \A i \in EventIds : events[i].endDate > events[i].startDate

\* the documents of a collection that belong to the properties in `visible`
RECURSIVE VisibleDocs(_, _)
VisibleDocs(docs, visible) ==
    IF docs = <<>> THEN <<>>
    ELSE (IF Head(docs).property \in visible THEN <<Head(docs)>> ELSE <<>>)
         \o VisibleDocs(Tail(docs), visible)

SharedOnly(u, p) == IsShared(u, p) /\ ~IsOwner(u, p)

\* C24: a request by a user who is on the share list of a property and not its
\* owner to delete one of its steps, to reorder its steps, or to change the
\* status of one of its steps answers 403 and leaves the steps unchanged.
C24_SharedUserForbidden ==
    [][\A u \in Users :
         /\ \A id \in StepIds :
               (/\ SharedOnly(u, steps[id].property)
                /\ \/ DeleteStep(u, id)
                   \/ \E st \in StepStatus : UpdateStepStatus(u, id, st))
                 => (response'.code = 403 /\ steps' = steps)
         /\ \A p \in PropIds :
               (/\ SharedOnly(u, p)
                /\ \E list \in AccessLists : ReorderSteps(u, p, list))
                 => (response'.code = 403 /\ steps' = steps)]_vars

\* C25: a reorder request changes the order of no step of a property other than
\* the one it names.
C25_ReorderStaysInProperty ==
    [][\A u \in Users : \A p \in PropIds : \A list \in AccessLists :
         ReorderSteps(u, p, list)
           => \A i \in StepIds :
                steps[i].property # p => steps'[i].order = steps[i].order]_vars

\* C27: no read returns a soft-deleted record: the property read-by-id returns
\* neither a deleted property nor a deleted step of the property, and the step
\* read-by-id returns no deleted step.
C27_DeletedNeverReturned ==
    /\ (response.op = "getProperty" /\ response.code = 200)
          => /\ properties[response.id].isActive
             /\ \A i \in response.steps : steps[i].isActive
    /\ (response.op = "getStep" /\ response.code = 200) => steps[response.id].isActive

\* the requests of a kind that are done with an HTTP status
DoneWith(op, code) ==
    {r \in RequestIds : request[r].op = op /\ request[r].pc = "done" /\ request[r].code = code}

\* C26: of two step-creation requests for the same property with the same order
\* at most one succeeds, and at most one active step of the property has that
\* order, however their duplicate checks and their saves interleave.
C26_OneCreationPerOrder ==
    /\ \A r1 \in DoneWith("createStep", 201) : \A r2 \in DoneWith("createStep", 201) :
          (/\ request[r1].property = request[r2].property
           /\ request[r1].body.order = request[r2].body.order) => r1 = r2
    /\ \A p \in PropIds : \A o \in Orders :
          Cardinality({i \in StepIds : /\ steps[i].property = p
                                       /\ steps[i].order = o
                                       /\ steps[i].isActive}) <= 1

\* C28: the downloadCount of a document is the number of downloads of it that
\* have completed, however the downloads interleave.
C28_DownloadsCounted ==
    \A d \in 1..Len(documents) :
        documents[d].downloadCount =
            Cardinality({r \in DoneWith("download", 200) : request[r].document = d})

\* the sum of the counts of stepsByStatus
RECURSIVE SumCounts(_, _)
SumCounts(f, S) ==
    IF S = {} THEN 0
    ELSE LET x == CHOOSE y \in S : TRUE IN f[x] + SumCounts(f, S \ {x})

\* C29: in every overview report steps.completed <= steps.total, the counts of
\* steps.byStatus add up to steps.total, and steps.progress is within 0..100,
\* also when step writes of other requests fall between the report's queries.
C29_OverviewConsistent ==
    \A r \in DoneWith("overview", 200) :
        /\ request[r].completedSteps <= request[r].totalSteps
        /\ SumCounts(request[r].stepsByStatus, StepStatus) = request[r].totalSteps
        /\ request[r].globalProgress \in 0..100

\* C30: after any sequence of step creation, generic update, status-change and
\* checklist requests, every Step whose status is "completed" has
\* dates.actualEnd set.
C30_CompletedHasActualEnd ==
    \A i \in StepIds : steps[i].status = "completed" => steps[i].actualEnd # NoDate

====
